---- MODULE Spec2Model ----
(***************************************************************************)
(* IntraRefer: subscription, payment reconciliation and weekly             *)
(* application quota.                                                      *)
(*                                                                         *)
(* The database collections (users, payments, referrals, applications) are *)
(* the state.  A request handler is a sequence of steps; a step is the     *)
(* synchronous code segment between two awaits together with the database  *)
(* operation that segment issues, so handlers interleave exactly at their  *)
(* awaits.  Each in-flight request keeps the documents it has loaded       *)
(* (req.user, payment) in its slot; doc.save() writes the paths the        *)
(* handler changed, findByIdAndUpdate writes the listed fields.            *)
(*                                                                         *)
(* Time is in seconds since the epoch (the source uses milliseconds), in   *)
(* the server's local time zone.                                           *)
(***************************************************************************)
EXTENDS Integers, FiniteSets, Sequences, TLC

\* ---------------------------------------------------------------- bounds
MaxTicks == 2
NumReferrals == 4
MaxApplies == 4
MaxLen == 2
MaxSkills == 40
MaxViews == 2

\* ------------------------------------------------------------- constants
WEEKLY_APPLICATION_LIMIT == 3
EpochDay == 4
DaySecs == 24 * 60 * 60
MonthlyDuration == 30 * 24 * 60 * 60
YearlyDuration == 365 * 24 * 60 * 60
MonthlyAmount == 9900
YearlyAmount == 99000
PartialRefund == MonthlyAmount \div 2

UserIds == {"u1", "u2"}
Roles == {"jobSeeker", "referrer", "admin"}
OrderIds == {1, 2}
Slots == {1, 2}
ReferralIds == 1 .. NumReferrals
GatewayPaymentIds == {1}
SubscriptionTypes == {"monthly", "yearly"}
PaymentStatuses == {"created", "attempted", "paid", "failed", "cancelled", "refunded"}

\* absent values: an unset Date, an unset reference, an unset string
NoDate == -1
NoId == 0
NoSig == <<>>
NoUser == [role |-> "none"]
NoPayment == [status |-> "none"]

\* the clock starts on Sunday 1970-01-04 at 23:59:58 and advances in steps
StartTime == 3 * DaySecs + DaySecs - 2
TickSteps == {1, MonthlyDuration}

VARIABLES now, ticks, razorpay, users, payments, referrals, applications, reqs,
          response

vars == <<now, ticks, razorpay, users, payments, referrals, applications, reqs,
          response>>

\* the collections, and everything but the requests in flight
db == <<users, payments, referrals, applications>>
env == <<now, ticks, razorpay>>

\* ------------------------------------------------------------ User model
NewUser(role, t) ==
  [role |-> role, isActive |-> TRUE, isSubscribed |-> FALSE,
   subscriptionStart |-> NoDate, subscriptionEnd |-> NoDate,
   subscriptionId |-> NoId,
   weeklyApplications |-> [count |-> 0, weekStart |-> t],
   bio |-> "none", avatar |-> "none", resume |-> "none"]

\* isSubscriptionActive looking at the flag only
isSubscriptionActiveFlagOnly(u, t) == u.isSubscribed

isSubscriptionActive(u, t) ==
  IF ~u.isSubscribed \/ u.subscriptionEnd = NoDate THEN FALSE
  ELSE t < u.subscriptionEnd

getDay(t) == ((t \div DaySecs) + EpochDay) % 7

\* getStartOfWeek going back to Sunday
getStartOfWeekSunday(t) ==
  LET day == getDay(t)
      diff == (t \div DaySecs) - day
  IN diff * DaySecs

getStartOfWeek(t) ==
  LET day == getDay(t)
      diff == (t \div DaySecs) - day + (IF day = 0 THEN -6 ELSE 1)
  IN diff * DaySecs

resetWeeklyCountIfNeeded(u, t) ==
  IF getStartOfWeek(t) # getStartOfWeek(u.weeklyApplications.weekStart)
  THEN [u EXCEPT !.weeklyApplications = [count |-> 0, weekStart |-> t]]
  ELSE u

\* canApply resetting before it looks at the subscription
canApplyThisAlwaysReset(u, t) == resetWeeklyCountIfNeeded(u, t)

\* canApply: the document it leaves in this
canApplyThis(u, t) ==
  IF isSubscriptionActive(u, t) THEN u ELSE resetWeeklyCountIfNeeded(u, t)

\* canApply: the value it returns
canApply(u, t) ==
  IF isSubscriptionActive(u, t) THEN TRUE
  ELSE resetWeeklyCountIfNeeded(u, t).weeklyApplications.count < WEEKLY_APPLICATION_LIMIT

\* the methods userSchema.methods defines
UserMethods ==
  {"comparePassword", "isSubscriptionActive", "resetWeeklyCountIfNeeded",
   "canApply", "getPublicProfile"}

\* --------------------------------------------------------- Payment model
SUBSCRIPTION_PLANS ==
  [monthly |-> [amount |-> MonthlyAmount, duration |-> 30],
   yearly |-> [amount |-> YearlyAmount, duration |-> 365]]

NewPayment(u, type) ==
  [status |-> "created", user |-> u, subscriptionType |-> type,
   amount |-> SUBSCRIPTION_PLANS[type].amount,
   razorpayPaymentId |-> NoId, razorpaySignature |-> NoSig,
   subscriptionStart |-> NoDate, subscriptionEnd |-> NoDate,
   failureReason |-> "none", refundAmount |-> 0, webhookReceived |-> FALSE]

\* HMAC-SHA256 under the gateway secret of orderId + "|" + paymentId
HmacSha256(orderId, paymentId) == <<orderId, paymentId>>
Tampered == <<0, 0>>

\* doc.save(): writes the paths whose value the handler changed
SaveDoc(stored, loaded, doc) ==
  [f \in DOMAIN stored |-> IF doc[f] # loaded[f] THEN doc[f] ELSE stored[f]]

\* markAsSuccessful with a 31-day month
markAsSuccessfulLongMonth(doc, paymentId, signature, t) ==
  [doc EXCEPT !.razorpayPaymentId = paymentId,
              !.razorpaySignature = signature,
              !.status = "paid",
              !.subscriptionStart = t,
              !.subscriptionEnd =
                 IF doc.subscriptionType = "monthly" THEN t + 31 * DaySecs
                 ELSE IF doc.subscriptionType = "yearly" THEN t + YearlyDuration
                 ELSE doc.subscriptionEnd]

\* markAsSuccessful, up to the payment's save: the document it saves.  The
\* source reads the clock twice in this segment (new Date() for the start,
\* Date.now() for the end); the clock does not advance within a step, so
\* both reads are t.
markAsSuccessful(doc, paymentId, signature, t) ==
  [doc EXCEPT !.razorpayPaymentId = paymentId,
              !.razorpaySignature = signature,
              !.status = "paid",
              !.subscriptionStart = t,
              !.subscriptionEnd =
                 IF doc.subscriptionType = "monthly" THEN t + MonthlyDuration
                 ELSE IF doc.subscriptionType = "yearly" THEN t + YearlyDuration
                 ELSE doc.subscriptionEnd]

\* markAsSuccessful, the User.findByIdAndUpdate that follows the save
ActivateUserUpdate(u, doc, id) ==
  [u EXCEPT !.isSubscribed = TRUE,
            !.subscriptionStart = doc.subscriptionStart,
            !.subscriptionEnd = doc.subscriptionEnd,
            !.subscriptionId = id]

\* markAsFailed recording the reason but not the status
markAsFailedKeepsStatus(doc, reason) ==
  [doc EXCEPT !.failureReason = reason]

markAsFailed(doc, reason) ==
  [doc EXCEPT !.status = "failed", !.failureReason = reason]

\* processRefund, up to the payment's save (0 stands for no amount given)
processRefund(doc, refundAmount) ==
  [doc EXCEPT !.status = "refunded",
              !.refundAmount = IF refundAmount # 0 THEN refundAmount ELSE doc.amount]

\* processRefund, the User.findByIdAndUpdate of a full refund
RefundUserUpdate(u) ==
  [u EXCEPT !.isSubscribed = FALSE, !.subscriptionStart = NoDate,
            !.subscriptionEnd = NoDate, !.subscriptionId = NoId]

\* -------------------------------------------------------------- requests
\* a request in flight: where it is, its inputs, the documents it holds
Idle ==
  [kind |-> "idle", pc |-> "idle", caller |-> "none", order |-> NoId,
   paymentId |-> NoId, sig |-> NoSig, arg |-> "none", referral |-> NoId,
   at |-> NoDate, user |-> NoUser, doc |-> NoPayment]

\* the last response sent: the route, the caller, the order, the message and
\* the documents in the body
ReplyData(kind, caller, order, res, data) ==
  [kind |-> kind, caller |-> caller, order |-> order, res |-> res, data |-> data]

Reply(kind, caller, order, res) == ReplyData(kind, caller, order, res, {})

NoReply == Reply("none", "none", NoId, "none")

\* a new request takes the first free slot
FreeSlot(s) ==
  /\ reqs[s].pc = "idle"
  /\ \A t \in Slots : t < s => reqs[t].pc # "idle"

\* no request is in flight
Sequential == \A s \in Slots : reqs[s].pc = "idle"

\* authenticateToken without the isActive test
authenticateTokenNoActiveCheck(u) ==
  IF users[u] = NoUser THEN "Invalid token - user not found" ELSE "next"

\* authenticateToken: the response it ends the request with, or "next"
authenticateToken(u) ==
  IF users[u] = NoUser THEN "Invalid token - user not found"
  ELSE IF ~users[u].isActive THEN "Account is deactivated"
  ELSE "next"

\* an argument of a call authorizeRole(...): a role string, or an array of them
RoleArg(role) == [isArray |-> FALSE, value |-> {role}]
ArrayArg(roleSet) == [isArray |-> TRUE, value |-> roleSet]

\* authorizeRole(...roles): roles holds the arguments of the call, and
\* roles.includes(req.user.role) compares the role with each argument
authorizeRole(roles, u) ==
  IF ~\E a \in roles : ~a.isArray /\ a.value = {users[u].role}
  THEN "Access denied"
  ELSE "next"

\* a Referral document as createReferral saves it
NewReferral(referrer, status, applicationDeadline) ==
  [status |-> status, isActive |-> TRUE, applicationDeadline |-> applicationDeadline,
   referrer |-> referrer, applicationCount |-> 0, views |-> 0]

NoReferral == [status |-> "none"]

Tick(d) ==
  /\ ticks < MaxTicks
  /\ now' = now + d
  /\ ticks' = ticks + 1
  /\ UNCHANGED <<razorpay, db, reqs, response>>

InitDb ==
  /\ now = StartTime
  /\ ticks = 0
  /\ razorpay = TRUE
  /\ payments = [o \in OrderIds |-> NoPayment]
  /\ referrals = [r \in ReferralIds |-> NewReferral("u2", "active", NoDate)]
  /\ applications = {}
  /\ reqs = [s \in Slots |-> Idle]
  /\ response = NoReply

\* ------------------------------------------- POST /api/payments/create-order
NextOrderId == Cardinality({o \in OrderIds : payments[o] # NoPayment}) + 1

OrdersPending == Cardinality({s \in Slots : reqs[s].pc = "orderCreate"})

\* create-order's checks without the one for an active subscription
CreateOrderRejectionNoActiveCheck(u, type) ==
  IF authenticateToken(u) # "next" THEN authenticateToken(u)
  ELSE IF authorizeRole({RoleArg("jobSeeker")}, u) # "next" THEN "Access denied"
  ELSE IF type \notin SubscriptionTypes THEN "Validation failed"
  ELSE IF ~razorpay THEN "Payment service not configured"
  ELSE "next"

\* authenticateToken, isJobSeeker, validation, the checks before the gateway
\* call: the response that ends the request, or "next"
CreateOrderRejection(u, type) ==
  IF authenticateToken(u) # "next" THEN authenticateToken(u)
  ELSE IF authorizeRole({RoleArg("jobSeeker")}, u) # "next" THEN "Access denied"
  ELSE IF type \notin SubscriptionTypes THEN "Validation failed"
  ELSE IF ~razorpay THEN "Payment service not configured"
  ELSE IF isSubscriptionActive(users[u], now)
       THEN "You already have an active subscription"
  ELSE "next"

\* POST /api/payments/create-order up to the gateway call
CreateOrderBegin(s, u, type, orders) ==
  /\ FreeSlot(s)
  /\ LET rejection == CreateOrderRejection(u, type)
     IN IF rejection # "next"
        THEN /\ response' = Reply("createOrder", u, NoId, rejection)
             /\ UNCHANGED reqs
        ELSE /\ NextOrderId + OrdersPending \in orders
             /\ reqs' = [reqs EXCEPT ![s] =
                  [Idle EXCEPT !.kind = "createOrder", !.pc = "orderCreate",
                               !.caller = u, !.arg = type]]
             /\ UNCHANGED response
  /\ UNCHANGED <<env, db>>

\* razorpay.orders.create returned: the Payment record is saved
CreateOrderSave(s) ==
  /\ reqs[s].pc = "orderCreate"
  /\ payments' = [payments EXCEPT ![NextOrderId] =
                    NewPayment(reqs[s].caller, reqs[s].arg)]
  /\ reqs' = [reqs EXCEPT ![s] = Idle]
  /\ response' = Reply("createOrder", reqs[s].caller, NextOrderId,
                       "Order created successfully")
  /\ UNCHANGED <<env, users, referrals, applications>>

\* razorpay.orders.create threw
CreateOrderGatewayError(s) ==
  /\ reqs[s].pc = "orderCreate"
  /\ reqs' = [reqs EXCEPT ![s] = Idle]
  /\ response' = Reply("createOrder", reqs[s].caller, NoId,
                       "Error creating payment order")
  /\ UNCHANGED <<env, db>>

\* ------------------------------------------------ POST /api/payments/verify
\* authenticateToken, validation, Payment.findOne({razorpayOrderId, user}) and
\* the two returns that follow the lookup without writing
\* VerifyRejection looking the Payment up by order id alone
VerifyRejectionAnyOwner(u, o, sig) ==
  LET found == payments[o] # NoPayment
  IN IF authenticateToken(u) # "next" THEN authenticateToken(u)
     ELSE IF sig = NoSig THEN "Validation failed"
     ELSE IF ~found THEN "Payment record not found"
     ELSE IF payments[o].status = "paid" THEN "Payment already verified"
     ELSE "next"

\* VerifyRejection without the return for a Payment that is already paid
VerifyRejectionNoPaidCheck(u, o, sig) ==
  LET found == payments[o] # NoPayment /\ payments[o].user = u
  IN IF authenticateToken(u) # "next" THEN authenticateToken(u)
     ELSE IF sig = NoSig THEN "Validation failed"
     ELSE IF ~found THEN "Payment record not found"
     ELSE "next"

VerifyRejection(u, o, sig) ==
  LET found == payments[o] # NoPayment /\ payments[o].user = u
  IN IF authenticateToken(u) # "next" THEN authenticateToken(u)
     ELSE IF sig = NoSig THEN "Validation failed"
     ELSE IF ~found THEN "Payment record not found"
     ELSE IF payments[o].status = "paid" THEN "Payment already verified"
     ELSE "next"

VerifyBegin(s, u, o, p, sig) ==
  /\ FreeSlot(s)
  /\ LET rejection == VerifyRejection(u, o, sig)
     IN IF rejection # "next"
        THEN /\ response' = Reply("verify", u, o, rejection)
             /\ UNCHANGED reqs
        ELSE /\ reqs' = [reqs EXCEPT ![s] =
                  [Idle EXCEPT !.kind = "verify", !.pc = "verifyMark", !.caller = u,
                               !.order = o, !.paymentId = p, !.sig = sig,
                               !.doc = payments[o]]]
             /\ UNCHANGED response
  /\ UNCHANGED <<env, db>>

\* the signature check, then markAsFailed or markAsSuccessful up to its save
VerifyMark(s) ==
  /\ reqs[s].pc = "verifyMark"
  /\ LET r == reqs[s]
         expectedSignature == HmacSha256(r.order, r.paymentId)
     IN IF expectedSignature # r.sig
        THEN /\ payments' = [payments EXCEPT ![r.order] =
                   SaveDoc(@, r.doc, markAsFailed(r.doc, "Invalid signature"))]
             /\ reqs' = [reqs EXCEPT ![s] = Idle]
             /\ response' = Reply("verify", r.caller, r.order,
                                  "Payment verification failed")
        ELSE LET doc == markAsSuccessful(r.doc, r.paymentId, r.sig, now)
             IN /\ payments' = [payments EXCEPT ![r.order] = SaveDoc(@, r.doc, doc)]
                /\ reqs' = [reqs EXCEPT ![s].pc = "activateUser", ![s].doc = doc]
                /\ UNCHANGED response
  /\ UNCHANGED <<env, users, referrals, applications>>

\* markAsSuccessful after its save: User.findByIdAndUpdate(this.user, ...); the
\* webhook handler then saves webhookReceived and webhookData
ActivateUser(s) ==
  /\ reqs[s].pc = "activateUser"
  /\ LET r == reqs[s]
     IN /\ users' = [users EXCEPT ![r.doc.user] =
               IF @ = NoUser THEN @ ELSE ActivateUserUpdate(@, r.doc, r.order)]
        /\ IF r.kind = "verify"
           THEN /\ response' = Reply("verify", r.caller, r.order,
                                     "Payment verified successfully")
                /\ UNCHANGED payments
           ELSE /\ response' = Reply("webhook", "none", r.order, "ok")
                /\ payments' = [payments EXCEPT ![r.order] =
                     SaveDoc(@, r.doc, [r.doc EXCEPT !.webhookReceived = TRUE])]
  /\ reqs' = [reqs EXCEPT ![s] = Idle]
  /\ UNCHANGED <<env, referrals, applications>>

\* markAsSuccessful after its save, User.findByIdAndUpdate throwing: /verify
\* answers 500 from its catch, handlePaymentCaptured logs and the webhook
\* answers ok
ActivateUserError(s) ==
  /\ reqs[s].pc = "activateUser"
  /\ response' = IF reqs[s].kind = "verify"
                 THEN Reply("verify", reqs[s].caller, reqs[s].order, "Error verifying payment")
                 ELSE Reply("webhook", "none", reqs[s].order, "ok")
  /\ reqs' = [reqs EXCEPT ![s] = Idle]
  /\ UNCHANGED <<env, db>>

\* ----------------------------------------------- POST /api/payments/webhook
WebhookEvents == {"payment.captured", "payment.failed", "order.paid"}

\* HMAC-SHA256(secret, rawBody): the body carries the event and its payment entity
WebhookHmac(event, o, p) == <<event, o, p>>

\* the webhook handler without its signature comparison
WebhookRejectionNoCheck(signature, event, o, p) == "next"

\* POST /webhook: the comparison of X-Razorpay-Signature with the expected HMAC
WebhookRejection(signature, event, o, p) ==
  IF signature # WebhookHmac(event, o, p) THEN "Invalid webhook signature" ELSE "next"

\* the signature check, Payment.findOne({razorpayOrderId}) and the guards of
\* handlePaymentCaptured / handlePaymentFailed
WebhookBegin(s, event, o, p, signature) ==
  /\ FreeSlot(s)
  /\ LET found == payments[o] # NoPayment
         start(pc) == [Idle EXCEPT !.kind = "webhook", !.pc = pc, !.order = o,
                                   !.paymentId = p, !.arg = event,
                                   !.sig = signature, !.doc = payments[o]]
     IN IF WebhookRejection(signature, event, o, p) # "next"
        THEN /\ response' = Reply("webhook", "none", o,
                                  WebhookRejection(signature, event, o, p))
             /\ UNCHANGED reqs
        ELSE IF event = "payment.captured" /\ found /\ payments[o].status # "paid"
        THEN /\ reqs' = [reqs EXCEPT ![s] = start("captureMark")]
             /\ UNCHANGED response
        ELSE IF event = "payment.failed" /\ found /\ payments[o].status # "failed"
        THEN /\ reqs' = [reqs EXCEPT ![s] = start("failMark")]
             /\ UNCHANGED response
        ELSE /\ response' = Reply("webhook", "none", o, "ok")
             /\ UNCHANGED reqs
  /\ UNCHANGED <<env, db>>

\* handlePaymentCaptured: markAsSuccessful(paymentData.id, null) up to its save
CaptureMark(s) ==
  /\ reqs[s].pc = "captureMark"
  /\ LET r == reqs[s]
         doc == markAsSuccessful(r.doc, r.paymentId, NoSig, now)
     IN /\ payments' = [payments EXCEPT ![r.order] = SaveDoc(@, r.doc, doc)]
        /\ reqs' = [reqs EXCEPT ![s].pc = "activateUser", ![s].doc = doc]
  /\ UNCHANGED <<env, users, referrals, applications, response>>

\* handlePaymentFailed: markAsFailed(error_description || 'Payment failed'),
\* then the save of webhookReceived and webhookData
FailMark(s) ==
  /\ reqs[s].pc = "failMark"
  /\ LET r == reqs[s]
         doc == [markAsFailed(r.doc, "Payment failed") EXCEPT !.webhookReceived = TRUE]
     IN payments' = [payments EXCEPT ![r.order] = SaveDoc(@, r.doc, doc)]
  /\ reqs' = [reqs EXCEPT ![s] = Idle]
  /\ response' = Reply("webhook", "none", reqs[s].order, "ok")
  /\ UNCHANGED <<env, users, referrals, applications>>

\* ------------------------------------------------------------------ refund
\* a refund of a paid Payment: processRefund up to its save
RefundBegin(s, o, refundAmount) ==
  /\ FreeSlot(s)
  /\ payments[o] # NoPayment
  /\ payments[o].status = "paid"
  /\ LET doc == processRefund(payments[o], refundAmount)
     IN /\ payments' = [payments EXCEPT ![o] = SaveDoc(@, payments[o], doc)]
        /\ reqs' = [reqs EXCEPT ![s] =
              [Idle EXCEPT !.kind = "refund", !.pc = "refundUser", !.order = o,
                           !.doc = doc]]
  /\ UNCHANGED <<env, users, referrals, applications, response>>

\* processRefund after its save: the User update of a full refund
RefundUser(s) ==
  /\ reqs[s].pc = "refundUser"
  /\ LET r == reqs[s]
     IN users' = [users EXCEPT ![r.doc.user] =
          IF r.doc.refundAmount >= r.doc.amount /\ @ # NoUser
          THEN RefundUserUpdate(@) ELSE @]
  /\ reqs' = [reqs EXCEPT ![s] = Idle]
  /\ response' = Reply("refund", "none", reqs[s].order, "refunded")
  /\ UNCHANGED <<env, payments, referrals, applications>>

\* ------------------------------------------------------ POST /applications
\* the method the Application pre-save hook calls on the user it loaded
HookResetMethod == "resetWeeklyApplicationsIfNeeded"

\* the flags a response body carries beside its message
BodyFlags(message) ==
  IF message = "Weekly application limit reached"
  THEN {"limitReached", "upgradeRequired"}
  ELSE IF message = "Premium subscription required for this feature"
  THEN {"subscriptionRequired"}
  ELSE {}

\* the HTTP status of the responses of the middleware
HttpStatus(message) ==
  IF message \in {"Weekly application limit reached", "Access denied",
                  "Premium subscription required for this feature"} THEN 403
  ELSE IF message \in {"Invalid token - user not found", "Account is deactivated"} THEN 401
  ELSE IF message = "Payment record not found" THEN 404
  ELSE 200

\* checkSubscription on req.user: the response it ends the request with
checkSubscription(u, t) ==
  IF u.role = "admin" THEN "next"
  ELSE IF ~isSubscriptionActive(u, t)
  THEN "Premium subscription required for this feature"
  ELSE "next"

\* a request to a premium route: authenticateToken, checkSubscription, then
\* the route's handler ("next")
PremiumRequest(u) ==
  /\ Sequential
  /\ LET answer == IF authenticateToken(u) # "next" THEN authenticateToken(u)
                   ELSE checkSubscription(users[u], now)
     IN response' = ReplyData("premium", u, NoId, answer, BodyFlags(answer))
  /\ UNCHANGED <<env, db, reqs>>

\* checkApplicationLimit without the canApply test
checkApplicationLimitNoCheck(u, t) == "next"

\* checkApplicationLimit on req.user: the response it ends the request with
checkApplicationLimit(u, t) ==
  IF u.role # "jobSeeker" THEN "next"
  ELSE IF isSubscriptionActive(u, t) THEN "next"
  ELSE IF ~canApply(u, t) THEN "Weekly application limit reached"
  ELSE "next"

RECURSIVE SumCounts(_)
SumCounts(refs) ==
  IF refs = {} THEN 0
  ELSE LET r == CHOOSE x \in refs : TRUE
       IN referrals[r].applicationCount + SumCounts(refs \ {r})

\* the saves begun so far: those counted on a Referral and those about to be
AppliesBegun ==
  SumCounts(ReferralIds) + Cardinality({s \in Slots : reqs[s].pc = "appReferralInc"})

\* authenticateToken, the job-seeker role check, checkApplicationLimit; the
\* controller then builds the Application and calls save(). A run accepts
\* at most budget saves.
ApplyBegin(s, u, ref, budget) ==
  /\ FreeSlot(s)
  /\ LET rejection ==
           IF authenticateToken(u) # "next" THEN authenticateToken(u)
           ELSE IF authorizeRole({RoleArg("jobSeeker")}, u) # "next" THEN "Access denied"
           ELSE checkApplicationLimit(users[u], now)
     IN IF rejection # "next"
        THEN /\ response' = ReplyData("apply", u, ref, rejection, BodyFlags(rejection))
             /\ UNCHANGED reqs
        ELSE /\ AppliesBegun < budget
             /\ reqs' = [reqs EXCEPT ![s] =
                  [Idle EXCEPT !.kind = "apply", !.pc = "appReferralInc",
                               !.caller = u, !.referral = ref, !.at = now]]
             /\ UNCHANGED response
  /\ UNCHANGED <<env, db>>

\* first pre-save hook: Referral.findByIdAndUpdate($inc applicationCount)
ApplyReferralInc(s) ==
  /\ reqs[s].pc = "appReferralInc"
  /\ referrals' = [referrals EXCEPT ![reqs[s].referral].applicationCount = @ + 1]
  /\ reqs' = [reqs EXCEPT ![s].pc = "appUserFind"]
  /\ UNCHANGED <<env, users, payments, applications, response>>

\* second pre-save hook: User.findById(this.jobSeeker)
ApplyUserFind(s) ==
  /\ reqs[s].pc = "appUserFind"
  /\ reqs' = [reqs EXCEPT ![s].pc = "appUserHook", ![s].user = users[reqs[s].caller]]
  /\ UNCHANGED <<env, db, response>>

\* the weekly count the hook computes on the user it loaded; calling a method
\* the schema does not define throws, and the hook's catch only logs
HookCount(u, t) ==
  IF HookResetMethod \in UserMethods
  THEN [resetWeeklyCountIfNeeded(u, t) EXCEPT !.weeklyApplications.count = @ + 1]
  ELSE u

\* second pre-save hook after the lookup: reset, count += 1, user.save()
ApplyUserHook(s) ==
  /\ reqs[s].pc = "appUserHook"
  /\ LET r == reqs[s]
     IN users' = [users EXCEPT ![r.caller] =
          IF r.user # NoUser /\ ~isSubscriptionActive(r.user, now)
          THEN SaveDoc(@, r.user, HookCount(r.user, now))
          ELSE @]
  /\ reqs' = [reqs EXCEPT ![s].pc = "appInsert", ![s].user = NoUser]
  /\ UNCHANGED <<env, payments, referrals, applications, response>>

\* the insert into a collection without the unique index
ApplyInsertNoIndex(s) ==
  /\ reqs[s].pc = "appInsert"
  /\ LET r == reqs[s]
     IN /\ applications' = applications \cup
             {[referral |-> r.referral, jobSeeker |-> r.caller, createdAt |-> r.at]}
        /\ response' = Reply("apply", r.caller, r.referral, "created")
  /\ reqs' = [reqs EXCEPT ![s] = Idle]
  /\ UNCHANGED <<env, users, payments, referrals>>

\* the insert, under the unique index on (referral, jobSeeker)
ApplyInsert(s) ==
  /\ reqs[s].pc = "appInsert"
  /\ LET r == reqs[s]
         duplicate == \E a \in applications :
                        a.referral = r.referral /\ a.jobSeeker = r.caller
     IN IF duplicate
        THEN /\ response' = Reply("apply", r.caller, r.referral, "duplicate key")
             /\ UNCHANGED applications
        ELSE /\ applications' = applications \cup
                  {[referral |-> r.referral, jobSeeker |-> r.caller, createdAt |-> r.at]}
             /\ response' = Reply("apply", r.caller, r.referral, "created")
  /\ reqs' = [reqs EXCEPT ![s] = Idle]
  /\ UNCHANGED <<env, users, payments, referrals>>

\* ------------------------------------------------------------ user routes
\* POST /api/auth/register
RegisterUser(u, role) ==
  /\ Sequential
  /\ IF role \notin {"jobSeeker", "referrer"}
     THEN /\ response' = Reply("register", u, NoId, "Validation failed")
          /\ UNCHANGED users
     ELSE IF users[u] # NoUser
     THEN /\ response' = Reply("register", u, NoId, "User already exists with this email")
          /\ UNCHANGED users
     ELSE /\ users' = [users EXCEPT ![u] = NewUser(role, now)]
          /\ response' = Reply("register", u, NoId, "User registered successfully")
  /\ UNCHANGED <<env, payments, referrals, applications, reqs>>

\* POST /api/auth/login
LoginUser(u, passwordOk) ==
  /\ Sequential
  /\ response' = Reply("login", u, NoId,
        IF users[u] = NoUser THEN "Invalid credentials"
        ELSE IF ~users[u].isActive THEN "Account is deactivated"
        ELSE IF ~passwordOk THEN "Invalid credentials"
        ELSE "Login successful")
  /\ UNCHANGED <<env, db, reqs>>

\* POST /api/auth/deactivate: authenticateToken, User.findByIdAndUpdate
deactivateAccountHandler(u) ==
  /\ IF authenticateToken(u) # "next"
     THEN /\ response' = Reply("deactivate", u, NoId, authenticateToken(u))
          /\ UNCHANGED users
     ELSE /\ users' = [users EXCEPT ![u].isActive = FALSE]
          /\ response' = Reply("deactivate", u, NoId, "Account deactivated successfully")
  /\ UNCHANGED <<env, payments, referrals, applications, reqs>>

\* POST /api/auth/deactivate with no other request in flight
deactivateAccount(u) ==
  /\ Sequential
  /\ deactivateAccountHandler(u)

\* the body fields updateUserProfile copies for the user's role
ProfileFields(role) ==
  {"bio", "avatar"} \cup (IF role = "jobSeeker" THEN {"resume"} ELSE {})

\* updateUserProfile copying every body field
updateUserProfileAnyField(u, field, value) ==
  [u EXCEPT ![field] = value]

\* updateUserProfile: the assignments to the user it loaded
updateUserProfile(u, field, value) ==
  IF field \in ProfileFields(u.role) THEN [u EXCEPT ![field] = value] ELSE u

\* PUT /api/users/profile: authenticateToken and User.findById; the body is
\* one field and its value
ProfileBegin(s, u, body) ==
  /\ FreeSlot(s)
  /\ IF authenticateToken(u) # "next"
     THEN /\ response' = Reply("profile", u, NoId, authenticateToken(u))
          /\ UNCHANGED reqs
     ELSE /\ reqs' = [reqs EXCEPT ![s] =
               [Idle EXCEPT !.kind = "profile", !.pc = "profileSave", !.caller = u,
                            !.arg = body, !.user = users[u]]]
          /\ UNCHANGED response
  /\ UNCHANGED <<env, db>>

\* PUT /api/users/profile: the assignments, then user.save()
ProfileSave(s) ==
  /\ reqs[s].pc = "profileSave"
  /\ LET r == reqs[s]
     IN users' = [users EXCEPT ![r.caller] =
                    SaveDoc(@, r.user, updateUserProfile(r.user, r.arg[1], r.arg[2]))]
  /\ reqs' = [reqs EXCEPT ![s] = Idle]
  /\ response' = Reply("profile", reqs[s].caller, NoId, "Profile updated successfully")
  /\ UNCHANGED <<env, payments, referrals, applications>>

\* POST /api/users/profile/avatar and /resume: authenticateToken, User.findById
UploadBegin(s, u, field) ==
  /\ FreeSlot(s)
  /\ IF authenticateToken(u) # "next"
     THEN /\ response' = Reply("upload", u, NoId, authenticateToken(u))
          /\ UNCHANGED reqs
     ELSE /\ reqs' = [reqs EXCEPT ![s] =
               [Idle EXCEPT !.kind = "upload", !.pc = "uploadSave", !.caller = u,
                            !.arg = field, !.user = users[u]]]
          /\ UNCHANGED response
  /\ UNCHANGED <<env, db>>

\* the upload returned: user.avatar (user.resume) = secure_url, user.save()
UploadSave(s) ==
  /\ reqs[s].pc = "uploadSave"
  /\ LET r == reqs[s]
     IN users' = [users EXCEPT ![r.caller] =
                    SaveDoc(@, r.user, [r.user EXCEPT ![r.arg] = "uploaded"])]
  /\ reqs' = [reqs EXCEPT ![s] = Idle]
  /\ response' = Reply("upload", reqs[s].caller, NoId, "uploaded successfully")
  /\ UNCHANGED <<env, payments, referrals, applications>>

\* the upload threw
UploadError(s) ==
  /\ reqs[s].pc = "uploadSave"
  /\ reqs' = [reqs EXCEPT ![s] = Idle]
  /\ response' = Reply("upload", reqs[s].caller, NoId, "upload failed")
  /\ UNCHANGED <<env, db>>

\* ----------------------------------------------------------- /api/referrals
\* referralSchema.methods.isExpired that never reports expiry
isExpiredNever(ref, t) == FALSE

\* referralSchema.methods.isExpired
isExpired(ref, t) ==
  IF ref.applicationDeadline = NoDate THEN FALSE ELSE t > ref.applicationDeadline

\* referralSchema.pre('save') rewriting the status whatever it is
ReferralPreSaveAnyStatus(ref, t) ==
  IF isExpired(ref, t) THEN [ref EXCEPT !.status = "expired"] ELSE ref

\* referralSchema.pre('save'): an active referral past its deadline is saved expired
ReferralPreSave(ref, t) ==
  IF isExpired(ref, t) /\ ref.status = "active"
  THEN [ref EXCEPT !.status = "expired"]
  ELSE ref

\* referralSchema.methods.incrementViews on the stored document r
incrementViews(r) ==
  /\ referrals[r] # NoReferral
  /\ referrals[r].views < MaxViews
  /\ referrals' = [referrals EXCEPT ![r] =
                     ReferralPreSave([@ EXCEPT !.views = @ + 1], now)]
  /\ UNCHANGED <<env, users, payments, applications, reqs, response>>

\* referralSchema.methods.incrementApplicationCount on the stored document r
incrementApplicationCount(r) ==
  /\ referrals[r] # NoReferral
  /\ referrals[r].applicationCount < MaxViews
  /\ referrals' = [referrals EXCEPT ![r] =
                     ReferralPreSave([@ EXCEPT !.applicationCount = @ + 1], now)]
  /\ UNCHANGED <<env, users, payments, applications, reqs, response>>

\* the filter object of getReferrals with no key set; at is the new Date() of
\* the deadline condition
EmptyQuery(t) ==
  [status |-> "any", isActive |-> "any", deadline |-> "any", referrer |-> "any",
   at |-> t]

\* getReferrals: the filter it builds for req.user = u, from the query
\* parameters myReferrals (= 'true' or not) and status ("none" when absent)
getReferralsQuery(u, myReferrals, status, t) ==
  LET role == users[u].role
      base == IF ~myReferrals /\ role = "jobSeeker"
              THEN [EmptyQuery(t) EXCEPT !.status = "active", !.isActive = "true",
                                         !.deadline = "future"]
              ELSE EmptyQuery(t)
  IN IF role = "referrer" /\ myReferrals
     THEN [base EXCEPT !.referrer = u,
                       !.status = IF status # "none" THEN status ELSE "any"]
     ELSE IF role = "admin"
     THEN [base EXCEPT !.status = IF status # "none" THEN status ELSE "any",
                       !.isActive = "any", !.deadline = "any"]
     ELSE base

\* Referral.find(query): whether a stored referral matches the filter
Matches(q, ref) ==
  /\ ref # NoReferral
  /\ q.status = "any" \/ ref.status = q.status
  /\ q.isActive = "any" \/ ref.isActive
  /\ \/ q.deadline = "any"
     \/ ref.applicationDeadline = NoDate
     \/ ref.applicationDeadline > q.at
  /\ q.referrer = "any" \/ ref.referrer = q.referrer

\* the referral as the response shows it: ref.status = 'expired' on the
\* loaded document, not saved
ShownReferral(ref, t) ==
  IF isExpired(ref, t) /\ ref.status = "active"
  THEN [ref EXCEPT !.status = "expired"]
  ELSE ref

\* GET /api/referrals: authenticateToken, the filter, Referral.find
GetReferralsFind(s, u, myReferrals, status) ==
  /\ FreeSlot(s)
  /\ IF authenticateToken(u) # "next"
     THEN /\ response' = Reply("getReferrals", u, NoId, authenticateToken(u))
          /\ UNCHANGED reqs
     ELSE LET q == getReferralsQuery(u, myReferrals, status, now)
              ids == {r \in ReferralIds : Matches(q, referrals[r])}
          IN /\ reqs' = [reqs EXCEPT ![s] =
                  [Idle EXCEPT !.kind = "getReferrals", !.pc = "referralsRespond",
                               !.caller = u, !.arg = <<myReferrals, status>>,
                               !.doc = [query |-> q,
                                        found |-> [r \in ids |-> referrals[r]]]]]
             /\ UNCHANGED response
  /\ UNCHANGED <<env, db>>

\* GET /api/referrals: countDocuments returned; the response maps the found
\* documents through the expiry check
GetReferralsRespond(s) ==
  /\ reqs[s].pc = "referralsRespond"
  /\ LET found == reqs[s].doc.found
     IN response' = ReplyData("getReferrals", reqs[s].caller, NoId, "success",
                      {[id |-> r,
                        status |-> ShownReferral(found[r], now).status,
                        applicationDeadline |-> found[r].applicationDeadline] :
                         r \in DOMAIN found})
  /\ reqs' = [reqs EXCEPT ![s] = Idle]
  /\ UNCHANGED <<env, db>>

\* the id the next Referral document gets
NextReferralId ==
  IF \E r \in ReferralIds : referrals[r] = NoReferral
  THEN CHOOSE r \in ReferralIds :
         /\ referrals[r] = NoReferral
         /\ \A q \in ReferralIds : referrals[q] = NoReferral => r <= q
  ELSE NoId

\* POST /api/referrals: authenticateToken, authorizeRole(['referrer', 'admin']),
\* createReferralValidation, createReferral (status "none" when the body has none)
createReferral(u, status, applicationDeadline) ==
  /\ Sequential
  /\ LET rejection ==
           IF authenticateToken(u) # "next" THEN authenticateToken(u)
           ELSE IF authorizeRole({ArrayArg({"referrer", "admin"})}, u) # "next"
                THEN "Access denied"
           ELSE IF applicationDeadline <= now \/ status \notin {"none", "draft", "active", "closed"}
                THEN "Validation failed"
           ELSE IF users[u].role \notin {"referrer", "admin"}
                THEN "Only referrers or administrators can post referrals."
           ELSE "next"
     IN IF rejection # "next"
        THEN /\ response' = Reply("createReferral", u, NoId, rejection)
             /\ UNCHANGED referrals
        ELSE /\ NextReferralId # NoId
             /\ referrals' = [referrals EXCEPT ![NextReferralId] =
                  ReferralPreSave(
                    NewReferral(u, IF status = "none" THEN "active" ELSE status,
                                applicationDeadline), now)]
             /\ response' = Reply("createReferral", u, NextReferralId,
                                  "Referral posted successfully!")
  /\ UNCHANGED <<env, users, payments, applications, reqs>>

\* ------------------------------------------------ calculateMatchScore
\* A string is a sequence of characters; a skill list is a sequence of strings.
\* String.prototype.toLowerCase, on the characters the inputs use
LowerChar(c) == IF c = "A" THEN "a" ELSE IF c = "B" THEN "b" ELSE c

toLowerCase(str) == [i \in 1 .. Len(str) |-> LowerChar(str[i])]

\* String.prototype.includes
includes(str, sub) ==
  \E i \in 0 .. (Len(str) - Len(sub)) : SubSeq(str, i + 1, i + Len(sub)) = sub

\* IEEE-754 binary64 arithmetic on positive numbers.  A number is a sequence
\* of bits, most significant first, with the count of bits after the binary
\* point: [bits, frac].
SignificandBits == 53

\* the binary digits of a natural number
RECURSIVE BitsOf(_)
BitsOf(k) == IF k = 0 THEN <<>> ELSE Append(BitsOf(k \div 2), k % 2)

\* the natural number a short bit sequence denotes
RECURSIVE ValOf(_)
ValOf(bits) ==
  IF bits = <<>> THEN 0
  ELSE 2 * ValOf(SubSeq(bits, 1, Len(bits) - 1)) + bits[Len(bits)]

\* the bits without their leading zeros
StripZeros(bits) ==
  IF \A i \in 1 .. Len(bits) : bits[i] = 0 THEN <<>>
  ELSE LET first == CHOOSE i \in 1 .. Len(bits) :
                      bits[i] = 1 /\ \A j \in 1 .. (i - 1) : bits[j] = 0
       IN SubSeq(bits, first, Len(bits))

\* a run of zero bits
ZeroBits ==
  <<0, 0, 0, 0, 0, 0, 0, 0, 0, 0, 0, 0, 0, 0, 0, 0, 0, 0, 0, 0, 0, 0,
    0, 0, 0, 0, 0, 0, 0, 0, 0, 0, 0, 0, 0, 0, 0, 0, 0, 0, 0, 0, 0, 0,
    0, 0, 0, 0, 0, 0, 0, 0, 0, 0, 0, 0, 0, 0, 0, 0, 0, 0, 0, 0>>

\* bits + 1: the last 0 becomes 1 and the 1s after it become 0
Increment(bits) ==
  IF \A i \in 1 .. Len(bits) : bits[i] = 1
  THEN <<1>> \o SubSeq(ZeroBits, 1, Len(bits))
  ELSE LET last == CHOOSE i \in 1 .. Len(bits) :
                     bits[i] = 0 /\ \A j \in (i + 1) .. Len(bits) : bits[j] = 1
       IN SubSeq(bits, 1, last - 1) \o <<1>> \o SubSeq(ZeroBits, 1, Len(bits) - last)

\* bits * c + carry for a small factor c, as the low Len(bits) bits of the
\* result and the carry out of them (computed by halves; the first test
\* evaluates the carry before the recursion descends)
RECURSIVE MulCarry(_, _, _)
MulCarry(bits, c, carry) ==
  IF carry < 0 \/ bits = <<>> THEN [bits |-> <<>>, carry |-> carry]
  ELSE IF Len(bits) = 1
  THEN [bits |-> <<(bits[1] * c + carry) % 2>>, carry |-> (bits[1] * c + carry) \div 2]
  ELSE LET h == Len(bits) \div 2
           low == MulCarry(SubSeq(bits, h + 1, Len(bits)), c, carry)
           high == MulCarry(SubSeq(bits, 1, h), c, low.carry)
       IN [bits |-> high.bits \o low.bits, carry |-> high.carry]

MulSmall(bits, c, carry) ==
  BitsOf(MulCarry(bits, c, carry).carry) \o MulCarry(bits, c, carry).bits

\* k further quotient bits of r / n by long division, and the remainder left
\* (computed by halves; the first test evaluates the remainder before the
\* recursion descends)
RECURSIVE DivBits(_, _, _)
DivBits(r, n, k) ==
  IF r < 0 \/ k = 0 THEN [bits |-> <<>>, rem |-> r]
  ELSE IF k = 1
  THEN [bits |-> <<IF 2 * r >= n THEN 1 ELSE 0>>,
        rem |-> IF 2 * r >= n THEN 2 * r - n ELSE 2 * r]
  ELSE LET first == DivBits(r, n, k \div 2)
           second == DivBits(first.rem, n, k - (k \div 2))
       IN [bits |-> first.bits \o second.bits, rem |-> second.rem]

\* round to nearest, ties to even: the kept bits, given whether the discarded
\* part is above, at or below one half of the last kept place
RoundNearestEven(kept, aboveHalf, atHalf) ==
  IF aboveHalf \/ (atHalf /\ kept[Len(kept)] = 1) THEN Increment(kept) ELSE kept

\* the double nearest to an exact number of more than 53 significant bits
RoundToDouble(x) ==
  LET bits == StripZeros(x.bits)
      d == Len(bits) - SignificandBits
  IN IF d <= 0 THEN x
     ELSE LET kept == SubSeq(bits, 1, SignificandBits)
              dropped == SubSeq(bits, SignificandBits + 1, Len(bits))
              others == \E i \in 2 .. d : dropped[i] = 1
          IN [bits |-> RoundNearestEven(kept, dropped[1] = 1 /\ others,
                                        dropped[1] = 1 /\ ~others),
              frac |-> x.frac - d]

\* the double m / n, for 0 < m <= n
RECURSIVE Exponent(_, _)
Exponent(m, n) == IF m >= n THEN 0 ELSE 1 + Exponent(2 * m, n)

DoubleDivide(m, n) ==
  LET e == Exponent(m, n)
      scaled == m * (2 ^ e)
      q == DivBits(scaled - n, n, SignificandBits - 1)
  IN [bits |-> RoundNearestEven(<<1>> \o q.bits, 2 * q.rem > n, 2 * q.rem = n),
      frac |-> SignificandBits - 1 + e]

\* the double x * c, for a small integer c
DoubleTimes(x, c) == RoundToDouble([bits |-> MulSmall(x.bits, c, 0), frac |-> x.frac])

\* Math.round of a positive double: floor(x + 0.5)
MathRound(x) ==
  LET len == Len(x.bits)
      whole == IF len > x.frac THEN ValOf(SubSeq(x.bits, 1, len - x.frac)) ELSE 0
      half == IF len >= x.frac /\ x.frac > 0 THEN x.bits[len - x.frac + 1] ELSE 0
  IN whole + half

\* Math.round((matching / total) * 100)
RoundedPercent(matching, total) ==
  IF matching = 0 THEN 0 ELSE MathRound(DoubleTimes(DoubleDivide(matching, total), 100))

\* referralSkills.filter(skill => seekerSkills.some(...)).length
CountMatching(referralSkills, seekerSkills) ==
  Cardinality({i \in 1 .. Len(referralSkills) :
                 \E j \in 1 .. Len(seekerSkills) :
                   \/ includes(seekerSkills[j], referralSkills[i])
                   \/ includes(referralSkills[i], seekerSkills[j])})

\* referralSchema.methods.calculateMatchScore
calculateMatchScore(skills, jobSeekerSkills) ==
  IF Len(skills) = 0 THEN 0
  ELSE LET referralSkills == [i \in 1 .. Len(skills) |-> toLowerCase(skills[i])]
           seekerSkills == [i \in 1 .. Len(jobSeekerSkills) |->
                              toLowerCase(jobSeekerSkills[i])]
       IN RoundedPercent(CountMatching(referralSkills, seekerSkills),
                         Len(referralSkills))

\* a call referral.calculateMatchScore(jobSeekerSkills) on a loaded referral
MatchScoreCall(s) ==
  /\ reqs[s].pc = "score"
  /\ response' = ReplyData("matchScore", "none", NoId, "score",
                   {calculateMatchScore(reqs[s].doc.skills, reqs[s].doc.jobSeekerSkills)})
  /\ reqs' = [reqs EXCEPT ![s].pc = "scored"]
  /\ UNCHANGED <<env, db>>

\* a call user.canApply() on a loaded user document: the slot keeps the
\* document before the call, the document after it and the time of the call
CanApplyCall(s) ==
  /\ reqs[s].pc \in {"loaded", "called"}
  /\ reqs' = [reqs EXCEPT ![s].pc = "called", ![s].kind = "canApply",
                          ![s].at = now,
                          ![s].doc = reqs[s].user,
                          ![s].user = canApplyThis(reqs[s].user, now)]
  /\ response' = ReplyData("canApply", "none", NoId, "returned",
                           {canApply(reqs[s].user, now)})
  /\ UNCHANGED <<env, db>>

\* a call user.resetWeeklyCountIfNeeded('weeklyApplications') on a loaded user
\* document; it returns whether it reset
ResetCall(s) ==
  /\ reqs[s].pc \in {"loaded", "called"}
  /\ reqs' = [reqs EXCEPT ![s].pc = "called", ![s].kind = "reset",
                          ![s].at = now,
                          ![s].doc = reqs[s].user,
                          ![s].user = resetWeeklyCountIfNeeded(reqs[s].user, now)]
  /\ response' = ReplyData("reset", "none", NoId, "returned",
                           {resetWeeklyCountIfNeeded(reqs[s].user, now) # reqs[s].user})
  /\ UNCHANGED <<env, db>>

\* ------------------------------------------------- payment specification
\* the orders the payment specification creates, the slot of a sequential run
PayOrders == {1}
SeqSlots == {1}

InitPay ==
  /\ InitDb
  /\ users = [u \in UserIds |->
                NewUser(IF u = "u1" THEN "jobSeeker" ELSE "referrer", StartTime)]

\* one request at a time, the clock advancing between its steps
NextPay ==
  \/ \E d \in TickSteps : Tick(d)
  \/ \E s \in SeqSlots, u \in UserIds, type \in SubscriptionTypes \cup {"weekly"} :
        CreateOrderBegin(s, u, type, PayOrders)
  \/ \E s \in SeqSlots : CreateOrderSave(s)
  \/ \E s \in SeqSlots : CreateOrderGatewayError(s)
  \/ \E s \in SeqSlots, u \in UserIds, o \in OrderIds, p \in GatewayPaymentIds :
        \E sig \in {HmacSha256(o, p), Tampered} : VerifyBegin(s, u, o, p, sig)
  \/ \E s \in SeqSlots : VerifyMark(s)
  \/ \E s \in SeqSlots : ActivateUser(s)
  \/ \E s \in SeqSlots, e \in WebhookEvents, o \in OrderIds, p \in GatewayPaymentIds :
        \E signature \in {WebhookHmac(e, o, p), Tampered} :
           WebhookBegin(s, e, o, p, signature)
  \/ \E s \in SeqSlots : CaptureMark(s)
  \/ \E s \in SeqSlots : FailMark(s)
  \/ \E s \in SeqSlots, o \in OrderIds, a \in {0, PartialRefund} : RefundBegin(s, o, a)
  \/ \E s \in SeqSlots : RefundUser(s)

SpecPay == InitPay /\ [][NextPay]_vars

\* --------------------------------------- verify and webhook, concurrently
NextRace ==
  \/ \E d \in TickSteps : Tick(d)
  \/ \E s \in Slots, type \in SubscriptionTypes :
        CreateOrderBegin(s, "u1", type, PayOrders)
  \/ \E s \in Slots : CreateOrderSave(s)
  \/ \E s \in Slots, o \in PayOrders, p \in GatewayPaymentIds :
        VerifyBegin(s, "u1", o, p, HmacSha256(o, p))
  \/ \E s \in Slots : VerifyMark(s)
  \/ \E s \in Slots : ActivateUser(s)
  \/ \E s \in Slots, o \in PayOrders, p \in GatewayPaymentIds :
        WebhookBegin(s, "payment.captured", o, p, WebhookHmac("payment.captured", o, p))
  \/ \E s \in Slots : CaptureMark(s)

SpecRace == InitPay /\ [][NextRace]_vars

\* ------------------------------------------------ application specifications
InitApply ==
  /\ InitDb
  /\ users = [u \in UserIds |->
                NewUser(IF u = "u1" THEN "jobSeeker" ELSE "referrer", StartTime)]

\* one application request at a time
NextApplySeq ==
  \/ \E d \in TickSteps : Tick(d)
  \/ \E s \in SeqSlots, u \in UserIds, ref \in ReferralIds : ApplyBegin(s, u, ref, MaxApplies)
  \/ \E s \in SeqSlots : ApplyReferralInc(s)
  \/ \E s \in SeqSlots : ApplyUserFind(s)
  \/ \E s \in SeqSlots : ApplyUserHook(s)
  \/ \E s \in SeqSlots : ApplyInsert(s)

SpecApplySeq == InitApply /\ [][NextApplySeq]_vars

\* concurrent application requests of one job seeker
NextApply ==
  \/ \E d \in TickSteps : Tick(d)
  \/ \E s \in Slots, ref \in ReferralIds : ApplyBegin(s, "u1", ref, MaxApplies)
  \/ \E s \in Slots : ApplyReferralInc(s)
  \/ \E s \in Slots : ApplyUserFind(s)
  \/ \E s \in Slots : ApplyUserHook(s)
  \/ \E s \in Slots : ApplyInsert(s)

SpecApply == InitApply /\ [][NextApply]_vars

\* ------------------------------------------------------- every operation
\* the job seeker is registered, the second user registers during the run
InitAll ==
  /\ InitDb
  /\ users = [u \in UserIds |->
                IF u = "u1" THEN NewUser("jobSeeker", StartTime) ELSE NoUser]

\* the request bodies a client sends to PUT /api/users/profile
ProfileBodies == {<<"bio", "new">>, <<"isSubscribed", TRUE>>}

NextAll ==
  \/ Tick(MonthlyDuration)
  \/ \E role \in {"referrer"} : RegisterUser("u2", role)
  \/ \E ok \in BOOLEAN : LoginUser("u2", ok)
  \/ deactivateAccount("u2")
  \/ \E s \in SeqSlots, body \in ProfileBodies : ProfileBegin(s, "u1", body)
  \/ \E s \in SeqSlots : ProfileSave(s)
  \/ \E s \in SeqSlots, field \in {"avatar", "resume"} : UploadBegin(s, "u1", field)
  \/ \E s \in SeqSlots : UploadSave(s)
  \/ \E s \in SeqSlots : UploadError(s)
  \/ \E s \in SeqSlots : ApplyBegin(s, "u1", 1, MaxApplies - 2)
  \/ \E s \in SeqSlots : ApplyReferralInc(s)
  \/ \E s \in SeqSlots : ApplyUserFind(s)
  \/ \E s \in SeqSlots : ApplyUserHook(s)
  \/ \E s \in SeqSlots : ApplyInsert(s)
  \/ \E s \in SeqSlots : CreateOrderBegin(s, "u1", "monthly", PayOrders)
  \/ \E s \in SeqSlots : CreateOrderSave(s)
  \/ \E s \in SeqSlots, o \in PayOrders, p \in GatewayPaymentIds :
        VerifyBegin(s, "u1", o, p, HmacSha256(o, p))
  \/ \E s \in SeqSlots : VerifyMark(s)
  \/ \E s \in SeqSlots : ActivateUser(s)
  \/ \E s \in SeqSlots, o \in PayOrders, p \in GatewayPaymentIds :
        WebhookBegin(s, "payment.captured", o, p, WebhookHmac("payment.captured", o, p))
  \/ \E s \in SeqSlots : CaptureMark(s)
  \/ \E s \in SeqSlots, o \in PayOrders : RefundBegin(s, o, 0)
  \/ \E s \in SeqSlots : RefundUser(s)

SpecAll == InitAll /\ [][NextAll]_vars

\* ------------------------------------------------- referral specification
\* the referral documents a run starts from: none, without a deadline, with a
\* deadline about to pass, active past its deadline, and a draft
ReferralSeeds ==
  {NoReferral,
   NewReferral("u2", "active", NoDate),
   NewReferral("u2", "active", StartTime),
   NewReferral("u2", "active", StartTime - DaySecs),
   NewReferral("u2", "draft", StartTime + DaySecs)}

InitReferral ==
  /\ now = StartTime
  /\ ticks = 0
  /\ razorpay = TRUE
  /\ payments = [o \in OrderIds |-> NoPayment]
  /\ applications = {}
  /\ reqs = [s \in Slots |-> Idle]
  /\ response = NoReply
  /\ referrals \in [ReferralIds -> ReferralSeeds]
  /\ \E role \in {"referrer", "admin"} :
       users = [u \in UserIds |->
                  NewUser(IF u = "u1" THEN "jobSeeker" ELSE role, StartTime)]

NextReferral ==
  \/ Tick(1)
  \/ \E s \in SeqSlots, u \in UserIds, myReferrals \in BOOLEAN,
        status \in {"none", "active"} : GetReferralsFind(s, u, myReferrals, status)
  \/ \E s \in SeqSlots : GetReferralsRespond(s)
  \/ \E u \in UserIds, status \in {"none", "draft"},
        deadline \in {StartTime, StartTime + DaySecs} : createReferral(u, status, deadline)

SpecReferral == InitReferral /\ [][NextReferral]_vars

\* ---------------------------------------------- match score specification
\* the skill strings of the short lists
ScoreStrings == {<<>>, <<"a">>, <<"A", "b">>, <<"b">>}

\* the skill lists of at most n strings
RECURSIVE ListsUpTo(_)
ListsUpTo(n) ==
  IF n = 0 THEN {<<>>}
  ELSE ListsUpTo(n - 1) \cup
       {Append(l, x) : l \in {k \in ListsUpTo(n - 1) : Len(k) = n - 1}, x \in ScoreStrings}

\* a referral list of n skills of which the first k are "a"
LongList(k, n) == [i \in 1 .. n |-> IF i <= k THEN <<"a">> ELSE <<"b">>]

\* the calls checked: every pair of short lists, and every long referral
\* list against the one candidate skill "a"
ScoreInputs ==
  {[skills |-> r, jobSeekerSkills |-> c] : r \in ListsUpTo(MaxLen), c \in ListsUpTo(MaxLen)}
  \cup {[skills |-> LongList(k, n), jobSeekerSkills |-> << <<"A">> >>] :
          k \in 0 .. MaxSkills, n \in 1 .. MaxSkills}

InitScore ==
  /\ now = StartTime
  /\ ticks = 0
  /\ razorpay = TRUE
  /\ payments = [o \in OrderIds |-> NoPayment]
  /\ referrals = [r \in ReferralIds |-> NewReferral("u2", "active", NoDate)]
  /\ applications = {}
  /\ response = NoReply
  /\ users = [u \in UserIds |-> NoUser]
  /\ \E input \in ScoreInputs :
       reqs = [s \in Slots |->
                 IF s = 1 THEN [Idle EXCEPT !.kind = "matchScore", !.pc = "score",
                                            !.doc = input]
                 ELSE Idle]

NextScore == \E s \in SeqSlots : MatchScoreCall(s)

SpecScore == InitScore /\ [][NextScore]_vars

\* ------------------------------------------------ quota-check specification
\* the job seeker's stored weekly count is any value up to the limit
InitLimit ==
  /\ InitDb
  /\ \E count \in 0 .. WEEKLY_APPLICATION_LIMIT :
       users = [u \in UserIds |->
                  IF u = "u1"
                  THEN [NewUser("jobSeeker", StartTime) EXCEPT
                          !.weeklyApplications.count = count]
                  ELSE NewUser("referrer", StartTime)]

NextLimit ==
  \/ Tick(1)
  \/ \E s \in SeqSlots, u \in UserIds, ref \in {1, 2} : ApplyBegin(s, u, ref, MaxApplies)
  \/ \E s \in SeqSlots : ApplyReferralInc(s)
  \/ \E s \in SeqSlots : ApplyUserFind(s)
  \/ \E s \in SeqSlots : ApplyUserHook(s)
  \/ \E s \in SeqSlots : ApplyInsert(s)

SpecLimit == InitLimit /\ [][NextLimit]_vars

\* ------------------------------------------- shared User document specification
\* one job seeker applies, pays and edits the profile, the requests overlapping
NextShared ==
  \/ Tick(1)
  \/ \E s \in Slots : CreateOrderBegin(s, "u1", "monthly", PayOrders)
  \/ \E s \in Slots : CreateOrderSave(s)
  \/ \E s \in Slots, o \in PayOrders, p \in GatewayPaymentIds :
        VerifyBegin(s, "u1", o, p, HmacSha256(o, p))
  \/ \E s \in Slots : VerifyMark(s)
  \/ \E s \in Slots : ActivateUser(s)
  \/ \E s \in Slots : ProfileBegin(s, "u1", <<"bio", "new">>)
  \/ \E s \in Slots : ProfileSave(s)
  \/ \E s \in Slots : ApplyBegin(s, "u1", 1, 1)
  \/ \E s \in Slots : ApplyReferralInc(s)
  \/ \E s \in Slots : ApplyUserFind(s)
  \/ \E s \in Slots : ApplyUserHook(s)
  \/ \E s \in Slots : ApplyInsert(s)

SpecShared == InitPay /\ [][NextShared]_vars

\* ------------------------------------------- order creation specification
\* the gateway keys are in the environment of the process or they are not
InitOrder ==
  /\ now = StartTime
  /\ ticks = 0
  /\ razorpay \in BOOLEAN
  /\ payments = [o \in OrderIds |-> NoPayment]
  /\ referrals = [r \in ReferralIds |-> NewReferral("u2", "active", NoDate)]
  /\ applications = {}
  /\ reqs = [s \in Slots |-> Idle]
  /\ response = NoReply
  /\ users = [u \in UserIds |->
                NewUser(IF u = "u1" THEN "jobSeeker" ELSE "referrer", StartTime)]

NextOrder ==
  \/ \E d \in TickSteps : Tick(d)
  \/ \E s \in SeqSlots, u \in UserIds, type \in SubscriptionTypes \cup {"weekly"} :
        CreateOrderBegin(s, u, type, OrderIds)
  \/ \E s \in SeqSlots : CreateOrderSave(s)
  \/ \E s \in SeqSlots : CreateOrderGatewayError(s)
  \/ \E s \in SeqSlots, o \in OrderIds, p \in GatewayPaymentIds :
        VerifyBegin(s, "u1", o, p, HmacSha256(o, p))
  \/ \E s \in SeqSlots : VerifyMark(s)
  \/ \E s \in SeqSlots : ActivateUser(s)

SpecOrder == InitOrder /\ [][NextOrder]_vars

\* ------------------------------------------- deactivation specification
\* the request bodies a client sends to PUT /api/users/profile
ReactivateBodies == {<<"bio", "new">>, <<"isActive", TRUE>>}

\* two users whose requests overlap; either deactivates the account at any time
NextDeactivate ==
  \/ \E u \in UserIds : deactivateAccountHandler(u)
  \/ \E u \in UserIds, ok \in BOOLEAN : LoginUser(u, ok)
  \/ \E u \in UserIds, role \in {"jobSeeker", "referrer"} : RegisterUser(u, role)
  \/ \E s \in Slots, u \in UserIds, body \in ReactivateBodies : ProfileBegin(s, u, body)
  \/ \E s \in Slots : ProfileSave(s)
  \/ \E s \in Slots, u \in UserIds : CreateOrderBegin(s, u, "monthly", PayOrders)
  \/ \E s \in Slots : CreateOrderSave(s)
  \/ \E s \in Slots, u \in UserIds, o \in PayOrders, p \in GatewayPaymentIds :
        VerifyBegin(s, u, o, p, HmacSha256(o, p))
  \/ \E s \in Slots : VerifyMark(s)
  \/ \E s \in Slots : ActivateUser(s)
  \/ \E s \in Slots, u \in UserIds, myReferrals \in BOOLEAN :
        GetReferralsFind(s, u, myReferrals, "none")
  \/ \E s \in Slots : GetReferralsRespond(s)

SpecDeactivate == InitPay /\ [][NextDeactivate]_vars

\* ------------------------------------------- referral save specification
\* the stored referrals: an expired one has a deadline that has passed
SavedReferralSeeds ==
  {NewReferral("u2", status, deadline) :
     status \in {"draft", "active", "closed"},
     deadline \in {NoDate, StartTime - DaySecs, StartTime + 1}}
  \cup {NewReferral("u2", "expired", StartTime - DaySecs)}

InitReferralSave ==
  /\ now = StartTime
  /\ ticks = 0
  /\ razorpay = TRUE
  /\ payments = [o \in OrderIds |-> NoPayment]
  /\ applications = {}
  /\ reqs = [s \in Slots |-> Idle]
  /\ response = NoReply
  /\ \E first \in SavedReferralSeeds, second \in SavedReferralSeeds \cup {NoReferral} :
       referrals = [r \in ReferralIds |->
                      IF r = 1 THEN first ELSE IF r = 2 THEN second ELSE NoReferral]
  /\ users = [u \in UserIds |->
                NewUser(IF u = "u1" THEN "jobSeeker" ELSE "referrer", StartTime)]

NextReferralSave ==
  \/ Tick(1)
  \/ \E r \in ReferralIds : incrementViews(r)
  \/ \E r \in ReferralIds : incrementApplicationCount(r)

SpecReferralSave == InitReferralSave /\ [][NextReferralSave]_vars

\* ------------------------------------------- user methods specification
\* the loaded job seekers: subscribed or not, the subscription ending never,
\* in a second or in a month; the week of weekStart is the last one, this one
\* (its Monday, its Sunday at 23:59:58 and at 23:59:59) or the next one
LoadedUsers ==
  {[NewUser("jobSeeker", StartTime) EXCEPT
      !.isSubscribed = subscribed,
      !.subscriptionEnd = subscriptionEnd,
      !.weeklyApplications = [count |-> count, weekStart |-> weekStart]] :
     subscribed \in BOOLEAN,
     subscriptionEnd \in {NoDate, StartTime + 1, StartTime + MonthlyDuration},
     count \in 0 .. WEEKLY_APPLICATION_LIMIT,
     weekStart \in {StartTime - 7 * DaySecs, StartTime - 6 * DaySecs, StartTime,
                    StartTime + 1, StartTime + 2}}

InitMethods ==
  /\ now = StartTime
  /\ ticks = 0
  /\ razorpay = TRUE
  /\ payments = [o \in OrderIds |-> NoPayment]
  /\ referrals = [r \in ReferralIds |-> NewReferral("u2", "active", NoDate)]
  /\ applications = {}
  /\ response = NoReply
  /\ users = [u \in UserIds |->
                NewUser(IF u = "u1" THEN "jobSeeker" ELSE "referrer", StartTime)]
  /\ \E user \in LoadedUsers :
       reqs = [s \in Slots |->
                 IF s = 1 THEN [Idle EXCEPT !.pc = "loaded", !.user = user]
                 ELSE Idle]

NextMethods ==
  \/ Tick(1)
  \/ \E s \in SeqSlots : CanApplyCall(s)
  \/ \E s \in SeqSlots : ResetCall(s)

SpecMethods == InitMethods /\ [][NextMethods]_vars

\* ------------------------------------------- partial failure specification
\* one order of one job seeker; the User update of an activation may fail
NextPartial ==
  \/ Tick(1)
  \/ \E s \in SeqSlots : CreateOrderBegin(s, "u1", "monthly", PayOrders)
  \/ \E s \in SeqSlots : CreateOrderSave(s)
  \/ \E s \in SeqSlots, o \in PayOrders, p \in GatewayPaymentIds :
        \E sig \in {HmacSha256(o, p), Tampered} : VerifyBegin(s, "u1", o, p, sig)
  \/ \E s \in SeqSlots : VerifyMark(s)
  \/ \E s \in SeqSlots : ActivateUser(s)
  \/ \E s \in SeqSlots : ActivateUserError(s)
  \/ \E s \in SeqSlots, e \in WebhookEvents, o \in PayOrders, p \in GatewayPaymentIds :
        WebhookBegin(s, e, o, p, WebhookHmac(e, o, p))
  \/ \E s \in SeqSlots : CaptureMark(s)
  \/ \E s \in SeqSlots : FailMark(s)

SpecPartial == InitPay /\ [][NextPartial]_vars

\* ------------------------------------------- subscription lapse specification
\* the order the job seeker paid a month ago and the order of a renewal
PastOrder == 1
RenewalOrders == {2}

\* the Payment of the past order: paid a month less a second ago
PastPayment ==
  markAsSuccessful(NewPayment("u1", "monthly"), 1, HmacSha256(PastOrder, 1),
                   StartTime + 1 - MonthlyDuration)

\* the job seeker's subscription ends in a second; the weekly count is any
\* value up to the limit; the other user is a referrer or an admin
InitLapse ==
  /\ now = StartTime
  /\ ticks = 0
  /\ razorpay = TRUE
  /\ payments = [o \in OrderIds |-> IF o = PastOrder THEN PastPayment ELSE NoPayment]
  /\ referrals = [r \in ReferralIds |-> NewReferral("u2", "active", NoDate)]
  /\ applications = {}
  /\ reqs = [s \in Slots |-> Idle]
  /\ response = NoReply
  /\ \E count \in 0 .. WEEKLY_APPLICATION_LIMIT, role \in {"referrer", "admin"} :
       users = [u \in UserIds |->
                  IF u = "u1"
                  THEN [ActivateUserUpdate(NewUser("jobSeeker", StartTime),
                                           PastPayment, PastOrder) EXCEPT
                          !.weeklyApplications.count = count]
                  ELSE NewUser(role, StartTime)]

NextLapse ==
  \/ Tick(1)
  \/ \E u \in UserIds : PremiumRequest(u)
  \/ \E s \in SeqSlots, u \in UserIds : CreateOrderBegin(s, u, "monthly", RenewalOrders)
  \/ \E s \in SeqSlots : CreateOrderSave(s)
  \/ \E s \in SeqSlots, u \in UserIds, ref \in {1, 2} : ApplyBegin(s, u, ref, MaxApplies)
  \/ \E s \in SeqSlots : ApplyReferralInc(s)
  \/ \E s \in SeqSlots : ApplyUserFind(s)
  \/ \E s \in SeqSlots : ApplyUserHook(s)
  \/ \E s \in SeqSlots : ApplyInsert(s)

SpecLapse == InitLapse /\ [][NextLapse]_vars

\* ------------------------------------------- refund specification
\* a job seeker creates and pays orders; paid Payments are refunded, in full
\* (no amount given) or in part
NextRefund ==
  \/ \E s \in SeqSlots : CreateOrderBegin(s, "u1", "monthly", OrderIds)
  \/ \E s \in SeqSlots : CreateOrderSave(s)
  \/ \E s \in SeqSlots, o \in OrderIds, p \in GatewayPaymentIds :
        VerifyBegin(s, "u1", o, p, HmacSha256(o, p))
  \/ \E s \in SeqSlots : VerifyMark(s)
  \/ \E s \in SeqSlots : ActivateUser(s)
  \/ \E s \in SeqSlots, o \in OrderIds, a \in {0, PartialRefund} : RefundBegin(s, o, a)
  \/ \E s \in SeqSlots : RefundUser(s)

SpecRefund == InitPay /\ [][NextRefund]_vars

\* ================================================================ claims
AppsInWeek(u, t) ==
  {a \in applications :
     a.jobSeeker = u /\ getStartOfWeek(a.createdAt) = getStartOfWeek(t)}

\* C1: a job seeker without an active subscription who already has 3
\* Applications created in the current Monday-anchored week is rejected by
\* checkApplicationLimit: the request goes no further and creates no record.
C1_FourthRejected ==
  [][\A s \in Slots, u \in UserIds :
       (/\ reqs[s].pc = "idle"
        /\ reqs'[s].pc = "appReferralInc"
        /\ reqs'[s].caller = u
        /\ ~isSubscriptionActive(users[u], now))
       => Cardinality(AppsInWeek(u, now)) < WEEKLY_APPLICATION_LIMIT]_vars

\* C2: under every interleaving of application requests of a job seeker without
\* a subscription, no Monday-anchored week holds more than 3 of the seeker's
\* Applications.
C2_AtMostThreePerWeek ==
  \A u \in UserIds, a \in applications :
    (users[u] # NoUser /\ ~users[u].isSubscribed)
    => Cardinality(AppsInWeek(u, a.createdAt)) <= WEEKLY_APPLICATION_LIMIT

\* C3: after 3 Applications in one week and one more in the following week
\* (four saves in all, none in flight), the persisted weekly count is 1 and
\* weekStart lies in the new week.
C3_CountOneAfterBoundary ==
  \A u \in UserIds :
    (/\ Sequential
     /\ users[u] # NoUser /\ ~users[u].isSubscribed
     /\ SumCounts(ReferralIds) = 4
     /\ Cardinality(AppsInWeek(u, StartTime)) = WEEKLY_APPLICATION_LIMIT
     /\ Cardinality(AppsInWeek(u, now)) = 1
     /\ getStartOfWeek(now) = getStartOfWeek(StartTime) + 7 * DaySecs)
    => /\ users[u].weeklyApplications.count = 1
       /\ getStartOfWeek(users[u].weeklyApplications.weekStart) = getStartOfWeek(now)

\* C4: with a valid verify call and a payment.captured webhook for one order
\* in flight together, markAsSuccessful never runs on a Payment that is
\* already paid, and the window of a paid Payment and of the User subscribed
\* through it is not written again with other dates.
C4_ActivatedOnce ==
  [][\A o \in OrderIds :
       (/\ payments[o] # NoPayment /\ payments[o].status = "paid"
        /\ \E s1, s2 \in Slots :
             /\ reqs[s1].kind = "verify" /\ reqs[s1].order = o
             /\ reqs[s2].kind = "webhook" /\ reqs[s2].order = o)
       => /\ \A s \in Slots :
               (reqs[s].order = o /\ reqs[s].pc \in {"verifyMark", "captureMark"})
               => reqs'[s].pc # "activateUser"
          /\ payments'[o].subscriptionStart = payments[o].subscriptionStart
          /\ payments'[o].subscriptionEnd = payments[o].subscriptionEnd
          /\ \A u \in UserIds :
               (users[u] # NoUser /\ users[u].subscriptionId = o)
               => /\ users'[u].subscriptionStart = users[u].subscriptionStart
                  /\ users'[u].subscriptionEnd = users[u].subscriptionEnd]_vars

\* a verify call of user u for order o arrives in this step: it is answered at
\* once, or it takes a slot
VerifyArrives(u, o) ==
  \/ /\ UNCHANGED reqs
     /\ response' # response
     /\ response'.kind = "verify" /\ response'.caller = u /\ response'.order = o
  \/ \E s \in Slots :
       /\ reqs[s].pc = "idle"
       /\ reqs'[s].kind = "verify" /\ reqs'[s].caller = u /\ reqs'[s].order = o

\* C5: a verify call by the authenticated owner for an order whose Payment
\* (found by the handler's lookup on order id and caller) is already paid is
\* answered 'Payment already verified' and
\* changes neither the Payment nor any User, whatever the signature.
C5_ReverifyNoOp ==
  [][\A u \in UserIds, o \in OrderIds :
       (/\ payments[o] # NoPayment
        /\ payments[o].user = u
        /\ payments[o].status = "paid"
        /\ VerifyArrives(u, o))
       => /\ response'.res = "Payment already verified"
          /\ UNCHANGED <<payments, users, reqs>>]_vars

C5_Witness ==
  /\ response = Reply("verify", "u1", 1, "Payment already verified")
  /\ payments[1].status = "paid"
  /\ users["u1"].subscriptionId = 1

\* C6: the verify step that finds the supplied signature different from
\* HMAC-SHA256(secret, orderId|paymentId) leaves the Payment failed with reason
\* 'Invalid signature' and every User unchanged.
C6_TamperedFails ==
  [][\A s \in Slots :
       (/\ reqs[s].pc = "verifyMark"
        /\ reqs[s].sig # HmacSha256(reqs[s].order, reqs[s].paymentId)
        /\ reqs'[s].pc # "verifyMark")
       => /\ payments'[reqs[s].order].status = "failed"
          /\ payments'[reqs[s].order].failureReason = "Invalid signature"
          /\ response'.res = "Payment verification failed"
          /\ UNCHANGED users]_vars

C6_Witness ==
  /\ response = Reply("verify", "u1", 1, "Payment verification failed")
  /\ payments[1].status = "failed"
  /\ payments[1].failureReason = "Invalid signature"
  /\ ~users["u1"].isSubscribed

\* the fixed duration of a subscription type, in seconds
WindowLength(type) == IF type = "monthly" THEN 30 * DaySecs ELSE 365 * DaySecs

\* C7: an activation at time T saves the Payment with subscriptionStart = T
\* and subscriptionEnd = T + 30 days (monthly) or T + 365 days (yearly), and
\* then writes that same window to the User.
C7_FixedWindow ==
  [][\A s \in Slots :
       /\ (reqs[s].pc \in {"verifyMark", "captureMark"} /\ reqs'[s].pc = "activateUser")
          => LET p == payments'[reqs[s].order]
             IN /\ p.subscriptionStart = now
                /\ p.subscriptionEnd = now + WindowLength(p.subscriptionType)
                /\ reqs'[s].doc.subscriptionStart = p.subscriptionStart
                /\ reqs'[s].doc.subscriptionEnd = p.subscriptionEnd
       /\ (reqs[s].pc = "activateUser" /\ reqs'[s].pc = "idle")
          => LET d == reqs[s].doc
                 u == users'[d.user]
             IN /\ u.subscriptionStart = d.subscriptionStart
                /\ u.subscriptionEnd = d.subscriptionStart + WindowLength(d.subscriptionType)
                /\ u.subscriptionEnd = d.subscriptionEnd]_vars

C7_Witness ==
  /\ Sequential
  /\ payments[1].status = "paid"
  /\ payments[1].subscriptionType = "monthly"
  /\ payments[1].subscriptionStart = StartTime + 1
  /\ payments[1].subscriptionEnd = StartTime + 1 + 30 * DaySecs
  /\ users["u1"].subscriptionStart = payments[1].subscriptionStart
  /\ users["u1"].subscriptionEnd = payments[1].subscriptionEnd

\* the subscription fields of a user record, unset for a user not yet registered
SubFields(u) ==
  IF u = NoUser THEN <<FALSE, NoDate, NoDate, NoId>>
  ELSE <<u.isSubscribed, u.subscriptionStart, u.subscriptionEnd, u.subscriptionId>>

\* a step sets isSubscribed to true or a subscription field to a new non-null value
SubscriptionSet(u) ==
  LET old == SubFields(users[u])
      new == SubFields(users'[u])
  IN \/ new[1] /\ ~old[1]
     \/ new[2] # NoDate /\ new[2] # old[2]
     \/ new[3] # NoDate /\ new[3] # old[3]
     \/ new[4] # NoId /\ new[4] # old[4]

\* C8: a step sets isSubscribed to true, or subscriptionStart, subscriptionEnd
\* or subscriptionId to a non-null value, only as the User update of
\* markAsSuccessful for a Payment of that user.
C8_OnlyActivationSubscribes ==
  [][\A u \in UserIds :
       SubscriptionSet(u)
       => \E s \in Slots :
            /\ reqs[s].pc = "activateUser"
            /\ reqs[s].doc.user = u
            /\ reqs[s].doc.status = "paid"
            /\ reqs'[s].pc = "idle"]_vars

C8_Witness ==
  /\ users["u1"].isSubscribed
  /\ users["u1"].bio = "new"
  /\ users["u1"].avatar = "uploaded"
  /\ users["u2"] # NoUser
  /\ applications # {}

\* C9: with no request in flight, a User with isSubscribed = true has a
\* subscriptionId that references a Payment of that user whose status is paid.
C9_SubscribedHasPaidPayment ==
  Sequential =>
    \A u \in UserIds :
      (users[u] # NoUser /\ users[u].isSubscribed)
      => /\ users[u].subscriptionId \in OrderIds
         /\ payments[users[u].subscriptionId] # NoPayment
         /\ payments[users[u].subscriptionId].user = u
         /\ payments[users[u].subscriptionId].status = "paid"

\* C10: once a Payment is refunded, no step changes its status and no step
\* subscribes a User through it.
C10_RefundedIsFinal ==
  [][\A o \in OrderIds :
       (payments[o] # NoPayment /\ payments[o].status = "refunded")
       => /\ payments'[o].status = "refunded"
          /\ \A u \in UserIds :
               (users'[u] # NoUser /\ users'[u].isSubscribed /\ users'[u].subscriptionId = o)
               => (users[u].isSubscribed /\ users[u].subscriptionId = o)]_vars

\* C11: a webhook request whose signature differs from HMAC-SHA256(secret,
\* rawBody) is answered 'Invalid webhook signature' in the step it arrives:
\* it loads no Payment (no request with a mismatching signature is ever in
\* flight), and the step that answers it changes no collection, whatever the
\* event.
C11_BadWebhookRejected ==
  [][/\ \A s \in Slots :
          (reqs'[s].kind = "webhook" /\ reqs[s].kind # "webhook")
          => reqs'[s].sig = WebhookHmac(reqs'[s].arg, reqs'[s].order, reqs'[s].paymentId)
     /\ (response' # response /\ response'.res = "Invalid webhook signature")
        => UNCHANGED <<db, reqs>>]_vars

C11_Witness ==
  /\ response = Reply("webhook", "none", 1, "Invalid webhook signature")
  /\ payments[1].status = "created"
  /\ Sequential

\* C12: every referral in a GET /api/referrals response whose
\* applicationDeadline is before the time of the response is shown with a
\* status other than active, and the request writes no Referral.
C12_ExpiredShownOnRead ==
  [][\A s \in Slots :
       (reqs[s].kind = "getReferrals" \/ reqs'[s].kind = "getReferrals")
       => /\ UNCHANGED referrals
          /\ (reqs[s].pc = "referralsRespond" /\ reqs'[s].pc = "idle")
             => \A d \in response'.data :
                  (d.applicationDeadline # NoDate /\ d.applicationDeadline < now)
                  => d.status # "active"]_vars

\* a response showing as expired a referral whose stored status is still active
C12_Witness ==
  /\ response.kind = "getReferrals"
  /\ \E d \in response.data :
       /\ d.status = "expired"
       /\ d.applicationDeadline < now
       /\ referrals[d.id].status = "active"

\* the matched count as the claim defines it: the skills of R that, in lower
\* case, are a substring of or contain some skill of C in lower case
MatchedCount(R, C) ==
  Cardinality({i \in 1 .. Len(R) :
     \E j \in 1 .. Len(C) :
        \/ includes(toLowerCase(C[j]), toLowerCase(R[i]))
        \/ includes(toLowerCase(R[i]), toLowerCase(C[j]))})

\* round(a / b) on exact rationals, halves up
ExactRound(a, b) == (2 * a + b) \div (2 * b)

\* C13: calculateMatchScore returns round(100 * m / |R|) for every referral
\* list R and candidate list C, a value in 0..100, 0 for empty R, and 50 for
\* R = [react, node], C = [reactjs, python].
C13_MatchScore ==
  /\ \A s \in Slots :
       reqs[s].pc = "scored"
       => LET R == reqs[s].doc.skills
              C == reqs[s].doc.jobSeekerSkills
          IN \A score \in response.data :
               /\ score \in 0 .. 100
               /\ Len(R) = 0 => score = 0
               /\ Len(R) > 0 => score = ExactRound(100 * MatchedCount(R, C), Len(R))
  /\ calculateMatchScore(<< <<"r", "e", "a", "c", "t">>, <<"n", "o", "d", "e">> >>,
                         << <<"r", "e", "a", "c", "t", "j", "s">>,
                            <<"p", "y", "t", "h", "o", "n">> >>) = 50

\* an application request of user u is handled by the middleware in this step:
\* it is answered at once, or it takes a slot
ApplyArrives(u) ==
  \/ /\ UNCHANGED reqs
     /\ response' # response
     /\ response'.kind = "apply" /\ response'.caller = u
  \/ \E s \in Slots :
       /\ reqs[s].pc = "idle"
       /\ reqs'[s].kind = "apply" /\ reqs'[s].caller = u

\* C14: an application request of an active job seeker for whom canApply is
\* false is answered 403 with limitReached in the body and changes no
\* collection and starts no save; a 403 'Access denied' of authorizeRole
\* never carries limitReached.
C14_LimitRejectsBeforeWrite ==
  [][/\ \A u \in UserIds :
          (/\ users[u] # NoUser /\ users[u].isActive
           /\ users[u].role = "jobSeeker"
           /\ ~canApply(users[u], now)
           /\ ApplyArrives(u))
          => /\ HttpStatus(response'.res) = 403
             /\ "limitReached" \in response'.data
             /\ UNCHANGED <<db, reqs>>
     /\ (response'.kind = "apply" /\ response'.res = "Access denied")
        => (HttpStatus(response'.res) = 403 /\ "limitReached" \notin response'.data)]_vars

C14_Witness ==
  /\ response.kind = "apply" /\ response.caller = "u1"
  /\ "limitReached" \in response.data
  /\ ~canApply(users["u1"], now)
  /\ applications = {}

\* the Application records of the pair (referral, jobSeeker)
ApplicationsOf(ref, u) ==
  {a \in applications : a.referral = ref /\ a.jobSeeker = u}

\* C15: under any interleaving of Application creations there is at most one
\* Application per pair (referral, jobSeeker), and a creation that reaches
\* the insert for a pair that already has one fails and adds no record.
C15_OnePerPair ==
  /\ [](\A ref \in ReferralIds, u \in UserIds : Cardinality(ApplicationsOf(ref, u)) <= 1)
  /\ [][\A s \in Slots :
          (/\ reqs[s].pc = "appInsert" /\ reqs'[s].pc = "idle"
           /\ ApplicationsOf(reqs[s].referral, reqs[s].caller) # {})
          => /\ applications' = applications
             /\ response'.res = "duplicate key"]_vars

C15_Witness ==
  /\ response.kind = "apply" /\ response.res = "duplicate key"
  /\ Cardinality(ApplicationsOf(response.order, response.caller)) = 1
  /\ \E s \in Slots : reqs[s].kind = "apply"

\* the weekly count of a user document
WeeklyCount(u) == u.weeklyApplications.count

\* C16: whenever the three flows on one User document overlap, each flow's
\* write lands and leaves the fields of the other two as stored: the quota
\* hook of an application by an unsubscribed job seeker adds one to the
\* weekly count (after the weekly reset), the activation sets the
\* subscription fields, the profile edit sets the edited field.
C16_NoLostUpdate ==
  [][\A s \in Slots :
       LET r == reqs[s]
           c == r.caller
       IN /\ (/\ r.pc = "appUserHook" /\ reqs'[s].pc = "appInsert"
              /\ r.user # NoUser /\ ~isSubscriptionActive(r.user, now))
             => /\ WeeklyCount(users'[c]) =
                     WeeklyCount(resetWeeklyCountIfNeeded(users[c], now)) + 1
                /\ SubFields(users'[c]) = SubFields(users[c])
                /\ users'[c].bio = users[c].bio
          /\ (r.pc = "activateUser" /\ reqs'[s].pc = "idle")
             => /\ SubFields(users'[c]) =
                     <<TRUE, r.doc.subscriptionStart, r.doc.subscriptionEnd, r.order>>
                /\ users'[c].weeklyApplications = users[c].weeklyApplications
                /\ users'[c].bio = users[c].bio
          /\ (r.pc = "profileSave" /\ reqs'[s].pc = "idle")
             => /\ users'[c].bio = r.arg[2]
                /\ users'[c].weeklyApplications = users[c].weeklyApplications
                /\ SubFields(users'[c]) = SubFields(users[c])]_vars

\* a POST /api/referrals request of user u is answered in this step
CreateReferralAnswered(u) ==
  /\ response' # response
  /\ response'.kind = "createReferral" /\ response'.caller = u

\* C17: a POST /api/referrals request of an authenticated active user passes
\* authorizeRole when the role is referrer or admin, and is answered 403
\* 'Access denied' when the role is jobSeeker.
C17_ReferrerMayPost ==
  [][\A u \in UserIds :
       (/\ users[u] # NoUser /\ users[u].isActive
        /\ CreateReferralAnswered(u))
       => /\ users[u].role \in {"referrer", "admin"} => response'.res # "Access denied"
          /\ users[u].role = "jobSeeker" => response'.res = "Access denied"]_vars

\* C18: the filter of a GET /api/referrals request whose requester is neither
\* an admin nor a referrer asking for myReferrals=true requires status
\* active, isActive true and a deadline unset or in the future, whatever the
\* other query parameters are.
C18_DefaultActiveOnly ==
  \A s \in Slots :
    reqs[s].pc = "referralsRespond"
    => LET role == users[reqs[s].caller].role
           myReferrals == reqs[s].arg[1]
           query == reqs[s].doc.query
       IN (role # "admin" /\ ~(role = "referrer" /\ myReferrals))
          => /\ query.status = "active"
             /\ query.isActive = "true"
             /\ query.deadline = "future"

\* a create-order request of user u is handled up to the gateway call in this
\* step: it is answered at once, or it takes a slot
CreateOrderArrives(u) ==
  \/ /\ UNCHANGED reqs
     /\ response' # response
     /\ response'.kind = "createOrder" /\ response'.caller = u
  \/ \E s \in Slots :
       /\ reqs[s].pc = "idle"
       /\ reqs'[s].kind = "createOrder" /\ reqs'[s].caller = u

\* the orders whose Payment record a step creates
PaymentsCreated ==
  {o \in OrderIds : payments[o] = NoPayment /\ payments'[o] # NoPayment}

\* C19: a create-order request of a caller whose subscription is active, whose
\* role is not jobSeeker, whose subscriptionType is not a plan, or with the
\* gateway not configured, is rejected and creates no Payment; a step creates
\* Payment records only as the success of create-order, and then exactly one,
\* with status created, under the gateway's order id, for the caller.
C19_CreateOrderGuards ==
  [][/\ \A u \in UserIds :
          (/\ CreateOrderArrives(u)
           /\ \/ users[u] = NoUser
              \/ users[u].role # "jobSeeker"
              \/ isSubscriptionActive(users[u], now)
              \/ ~razorpay)
          => /\ UNCHANGED <<db, reqs>>
             /\ response'.res # "Order created successfully"
     /\ \A s \in Slots :
          reqs'[s].pc = "orderCreate" => reqs'[s].arg \in SubscriptionTypes
     /\ (response' # response /\ response'.kind = "createOrder"
         /\ response'.res # "Order created successfully")
        => PaymentsCreated = {}
     /\ PaymentsCreated # {}
        => /\ response'.kind = "createOrder"
           /\ response'.res = "Order created successfully"
           /\ PaymentsCreated = {response'.order}
           /\ payments'[response'.order].status = "created"
           /\ payments'[response'.order].user = response'.caller
           /\ users[response'.caller].role = "jobSeeker"
           /\ razorpay]_vars

C19_Witness ==
  /\ response.kind = "createOrder"
  /\ response.res = "You already have an active subscription"
  /\ \E o \in OrderIds : payments[o] # NoPayment /\ payments[o].status = "paid"
  /\ \E o \in OrderIds : payments[o] = NoPayment

\* user u's account is stored and deactivated
Deactivated(u) == users[u] # NoUser /\ ~users[u].isActive

\* the routes behind authenticateToken
AuthenticatedKinds ==
  {"profile", "upload", "apply", "createOrder", "verify", "deactivate",
   "getReferrals", "createReferral"}

\* C20: once an account is deactivated it stays deactivated, whatever
\* requests are in flight or arrive; every request that then arrives with the
\* user's token is answered 401 'Account is deactivated', every login of the
\* user is rejected, and these rejections change no document and start no
\* request.
C20_DeactivatedStaysOut ==
  [][\A u \in UserIds :
       Deactivated(u)
       => /\ users'[u] # NoUser /\ ~users'[u].isActive
          /\ \A s \in Slots :
               (reqs[s].pc = "idle" /\ reqs'[s].pc # "idle") => reqs'[s].caller # u
          /\ (/\ UNCHANGED reqs /\ response' # response /\ response'.caller = u
              /\ response'.kind \in AuthenticatedKinds)
             => /\ response'.res = "Account is deactivated"
                /\ HttpStatus(response'.res) = 401
                /\ UNCHANGED db
          /\ (response' # response /\ response'.caller = u /\ response'.kind = "login")
             => /\ response'.res = "Account is deactivated"
                /\ UNCHANGED <<db, reqs>>]_vars

C20_Witness ==
  /\ Deactivated("u1")
  /\ response.caller = "u1" /\ response.kind = "profile"
  /\ response.res = "Account is deactivated"
  /\ users["u1"].bio = "new"

\* C21: over verify calls and payment.captured / payment.failed webhooks, no
\* step changes a Payment with status paid to failed, and no step changes a
\* Payment with status failed to paid.
C21_PaidAndFailedAreDisjoint ==
  [][\A o \in OrderIds :
       /\ payments[o].status = "paid" => payments'[o].status # "failed"
       /\ payments[o].status = "failed" => payments'[o].status # "paid"]_vars

MondayStart(t) == t - ((t - 4 * DaySecs) % (7 * DaySecs))

\* C23: canApply returns true and leaves weeklyApplications as it was
\* whenever isSubscribed is true and now < subscriptionEnd; otherwise it
\* applies the week reset and returns true iff the count is then below 3.
C23_CanApply ==
  \A s \in Slots :
    (reqs[s].pc = "called" /\ reqs[s].kind = "canApply")
    => LET before == reqs[s].doc
           after == reqs[s].user
           t == reqs[s].at
           returned == (response.data = {TRUE})
       IN IF /\ before.isSubscribed
             /\ before.subscriptionEnd # NoDate
             /\ t < before.subscriptionEnd
          THEN returned /\ after = before
          ELSE /\ after.weeklyApplications =
                    IF MondayStart(t) # MondayStart(before.weeklyApplications.weekStart)
                    THEN [count |-> 0, weekStart |-> t]
                    ELSE before.weeklyApplications
               /\ returned = (after.weeklyApplications.count < 3)

C23_Witness ==
  \E s \in Slots :
    /\ reqs[s].pc = "called" /\ reqs[s].kind = "canApply"
    /\ reqs[s].doc.isSubscribed /\ reqs[s].doc.subscriptionEnd = StartTime + 1
    /\ reqs[s].at = StartTime + 2
    /\ reqs[s].doc.weeklyApplications.count = 3
    /\ reqs[s].user.weeklyApplications.count = 0
    /\ response.data = {TRUE}

\* C24: resetWeeklyCountIfNeeded sets count = 0 and weekStart = now if and
\* only if the Monday 00:00 start of now's week differs from that of the
\* stored weekStart's week, and otherwise leaves both unchanged; a stored
\* weekStart of Sunday 23:59:59 followed by now = Monday 00:00:00 resets.
C24_ResetIffNewWeek ==
  \A s \in Slots :
    (reqs[s].pc = "called" /\ reqs[s].kind = "reset")
    => LET before == reqs[s].doc
           after == reqs[s].user
           t == reqs[s].at
       IN /\ IF MondayStart(t) # MondayStart(before.weeklyApplications.weekStart)
             THEN after.weeklyApplications = [count |-> 0, weekStart |-> t]
             ELSE after.weeklyApplications = before.weeklyApplications
          /\ (before.weeklyApplications.weekStart = StartTime + 1 /\ t = StartTime + 2)
             => after.weeklyApplications = [count |-> 0, weekStart |-> t]

C24_Witness ==
  \E s \in Slots :
    /\ reqs[s].pc = "called" /\ reqs[s].kind = "reset"
    /\ reqs[s].doc.weeklyApplications = [count |-> 2, weekStart |-> StartTime + 1]
    /\ reqs[s].at = StartTime + 2
    /\ reqs[s].user.weeklyApplications = [count |-> 0, weekStart |-> StartTime + 2]

\* C25: in the creation of a new Application that no Application of the same
\* pair precedes, the first hook adds exactly 1 to the applicationCount of the
\* parent Referral, and the second hook adds exactly 1 to the persisted weekly
\* count of the seeker after the week reset when the seeker has no active
\* subscription, and leaves weeklyApplications unchanged when it is active.
C25_CreationCounts ==
  [][\A s \in Slots :
       LET r == reqs[s]
           c == r.caller
       IN (r.kind = "apply" /\ ApplicationsOf(r.referral, c) = {})
          => /\ (r.pc = "appReferralInc" /\ reqs'[s].pc = "appUserFind")
                => referrals' = [referrals EXCEPT
                                   ![r.referral].applicationCount = @ + 1]
             /\ (r.pc = "appUserHook" /\ reqs'[s].pc = "appInsert")
                => IF isSubscriptionActive(users[c], now)
                   THEN users'[c].weeklyApplications = users[c].weeklyApplications
                   ELSE WeeklyCount(users'[c]) =
                          WeeklyCount(resetWeeklyCountIfNeeded(users[c], now)) + 1]_vars

\* the Payment of order o is paid, its user's subscriptionId is not o and no
\* activation for o is in flight: the User update of the activation failed
PaidNotActivated(o) ==
  /\ payments[o] # NoPayment
  /\ payments[o].status = "paid"
  /\ users[payments[o].user].subscriptionId # o
  /\ \A s \in Slots : ~(reqs[s].pc = "activateUser" /\ reqs[s].order = o)

\* C26: once the Payment of an order is paid while the User update of its
\* activation has failed, the system stays so: the Payment stays paid and the
\* User stays without that subscriptionId, every verify call for the order is
\* answered 'Payment already verified', and no request for the order starts
\* an activation.
C26_NeverActivatedAfterFailure ==
  [][\A o \in PayOrders :
       PaidNotActivated(o)
       => /\ PaidNotActivated(o)'
          /\ VerifyArrives("u1", o)
             => /\ response'.res = "Payment already verified"
                /\ UNCHANGED <<db, reqs>>
          /\ \A s \in Slots :
               (reqs[s].pc = "idle" /\ reqs'[s].pc # "idle" /\ reqs'[s].order = o)
               => reqs'[s].pc \notin {"captureMark", "verifyMark", "activateUser"}]_vars

\* user u's subscription end has been reached; isSubscribed may still be true
Lapsed(u) ==
  /\ users[u] # NoUser /\ users[u].isActive
  /\ users[u].subscriptionEnd # NoDate
  /\ now >= users[u].subscriptionEnd

\* a request of user u to a premium route is answered in this step
PremiumAnswered(u) ==
  /\ response' # response
  /\ response'.kind = "premium" /\ response'.caller = u

\* C27: once now >= subscriptionEnd, with no write to the User,
\* isSubscriptionActive is false, checkSubscription answers a non-admin 403
\* with subscriptionRequired, an application request is admitted exactly when
\* the weekly count after the week reset is below 3, and a create-order
\* request of the job seeker is accepted.
C27_LazyLapse ==
  [][\A u \in UserIds :
       Lapsed(u)
       => /\ ~isSubscriptionActive(users[u], now)
          /\ (PremiumAnswered(u) /\ users[u].role # "admin")
             => /\ HttpStatus(response'.res) = 403
                /\ "subscriptionRequired" \in response'.data
                /\ UNCHANGED db
          /\ (ApplyArrives(u) /\ users[u].role = "jobSeeker")
             => IF WeeklyCount(resetWeeklyCountIfNeeded(users[u], now)) < 3
                THEN reqs' # reqs
                ELSE /\ "limitReached" \in response'.data
                     /\ UNCHANGED <<db, reqs>>
          /\ (CreateOrderArrives(u) /\ users[u].role = "jobSeeker")
             => reqs' # reqs]_vars

C27_Witness ==
  /\ users["u1"].isSubscribed
  /\ now >= users["u1"].subscriptionEnd
  /\ users["u1"].subscriptionId = PastOrder
  /\ payments[2] # NoPayment /\ payments[2].status = "created"
  /\ response.kind = "premium" /\ response.caller = "u1"
  /\ "subscriptionRequired" \in response.data

\* C28: whenever no creation is in flight, the applicationCount of every
\* Referral equals the number of Application records of that Referral,
\* whatever creations were attempted before, failed ones included.
C28_CountMatchesRecords ==
  Sequential
  => \A r \in ReferralIds :
       referrals[r] # NoReferral
       => referrals[r].applicationCount =
            Cardinality({a \in applications : a.referral = r})

\* C29: processRefund leaves the Payment refunded, and its User update clears
\* the subscription fields exactly when the refund amount is at least the
\* Payment amount and the User's subscriptionId references the refunded
\* Payment; otherwise (a partial refund, or a subscription granted by another
\* Payment) the User is left unchanged.
C29_RefundClearsOwnSubscription ==
  [][\A s \in Slots :
       (reqs[s].pc = "refundUser" /\ reqs'[s].pc = "idle")
       => LET r == reqs[s]
              u == r.doc.user
          IN /\ payments'[r.order].status = "refunded"
             /\ IF /\ r.doc.refundAmount >= r.doc.amount
                   /\ users[u].subscriptionId = r.order
                THEN SubFields(users'[u]) = <<FALSE, NoDate, NoDate, NoId>>
                ELSE users'[u] = users[u]]_vars

\* C30: a verify call of an authenticated user for an order whose Payment
\* belongs to another user is answered 404 'Payment record not found' and
\* changes no Payment and no User and starts no request, whatever the
\* signature, the valid one included.
C30_VerifyOnlyOwnPayment ==
  [][\A u \in UserIds, o \in OrderIds :
       (/\ users[u] # NoUser /\ users[u].isActive
        /\ payments[o] # NoPayment
        /\ payments[o].user # u
        /\ VerifyArrives(u, o))
       => /\ response'.res = "Payment record not found"
          /\ HttpStatus(response'.res) = 404
          /\ UNCHANGED <<db, reqs>>]_vars

C30_Witness ==
  /\ response.kind = "verify" /\ response.caller = "u2"
  /\ response.res = "Payment record not found"
  /\ response.order \in OrderIds
  /\ payments[response.order] # NoPayment
  /\ payments[response.order].user = "u1"
  /\ payments[response.order].status = "created"

====
